---------------------------- MODULE Spec2Model ----------------------------
(***************************************************************************)
(* Model of the ARGO migration scripts:                                    *)
(*   migrate_to_supabase.py   batched SQLite -> PostgreSQL migration       *)
(*   import_csv_to_supabase.py  COPY-based CSV import                      *)
(*   bulk_import_supabase.py    COPY-based CSV import                      *)
(* A behaviour is a sequence of runs of these scripts against one SQLite   *)
(* source and one PostgreSQL destination.  Store errors (connectivity,     *)
(* privilege, malformed data) are inputs chosen by the environment.        *)
(***************************************************************************)
EXTENDS Integers, Sequences, FiniteSets, TLC

\* ------------------------------------------------------------- bounds
MaxRows == 2          \* rows per source table / CSV file
MaxBatch == 2         \* largest batch_size tried
MaxRuns == 2          \* script runs in one behaviour
MaxSrcWrites == 1     \* writes an outside writer makes to the source

VARIABLES
    run,          \* number of the current run
    script,       \* "migrate" | "csv" | "bulk"
    pc,           \* position of the running script
    sqlite,       \* source tables, each the rows in scan order
    pg,           \* destination: committed state, transaction view, txn status
    sqlite_conn,  \* "none" | "open" | "closed"
    pg_conn,      \* "none" | "open" | "closed"
    loc,          \* locals of migrate_data
    batches,      \* per table, the batches fetched by migrate_data in this run
    verdict,      \* all_good and the lines printed by verify_migration
    outcome,      \* how the run ended: exit status and final message
    hist,         \* what happened in this run
    prev,         \* what the previous run left behind
    srcWrites     \* writes made to the source so far

vars == <<run, script, pc, sqlite, pg, sqlite_conn, pg_conn, loc, batches,
          verdict, outcome, hist, prev, srcWrites>>

\* ------------------------------------------------------------- data
Tables == {"argo_floats", "argo_profiles"}

IndexNames == {"idx_profiles_float_id", "idx_profiles_timestamp",
               "idx_profiles_lat", "idx_profiles_lon", "idx_profiles_location"}

NoTable == [exists |-> FALSE, rows |-> <<>>]
EmptyTable == [exists |-> TRUE, rows |-> <<>>]

\* A database: its tables and the indexes on argo_profiles.
NoSchema == [tab |-> [t \in Tables |-> NoTable], idx |-> {}]
FreshSchema == [tab |-> [t \in Tables |-> EmptyTable], idx |-> IndexNames]
StaleSchema == [tab |-> [t \in Tables |-> [exists |-> TRUE, rows |-> <<1>>]],
                idx |-> IndexNames]

Range(s) == {s[i] : i \in 1..Len(s)}
Iota(n) == [i \in 1..n |-> i]

\* ------------------------------------------------------------- PostgreSQL
Idle(db) == [c |-> db, w |-> db, txn |-> "idle"]

\* conn.autocommit = False
AutocommitOn == TRUE
Autocommit == FALSE

\* A statement that succeeded, leaving the transaction's view as db.
StmtOk(s, db, ac) ==
    IF ac THEN Idle(db) ELSE [c |-> s.c, w |-> db, txn |-> "open"]

\* A statement that failed: its own effect is undone, the transaction aborted.
StmtFail(s, ac) ==
    IF ac THEN s ELSE [c |-> s.c, w |-> s.w, txn |-> "failed"]

\* COMMIT of an aborted transaction is a ROLLBACK.
Commit(s) == IF s.txn = "failed" THEN Idle(s.c) ELSE Idle(s.w)
Rollback(s) == Idle(s.c)
\* Closing (or losing) a connection discards the open transaction.
Discard(s) == Idle(s.c)

\* DDL statements: op, table, index.
Stmt(op, t, i) == [op |-> op, t |-> t, i |-> i]

ApplyDDL(db, st) ==
    CASE st.op = "drop" ->
           [ok |-> TRUE,
            db |-> [tab |-> [db.tab EXCEPT ![st.t] = NoTable],
                    idx |-> IF st.t = "argo_profiles" THEN {} ELSE db.idx]]
      [] st.op = "create" ->
           IF db.tab[st.t].exists
           THEN [ok |-> FALSE, db |-> db]
           ELSE [ok |-> TRUE,
                 db |-> [db EXCEPT !.tab[st.t] = EmptyTable]]
      [] st.op = "create_if_not_exists" ->
           [ok |-> TRUE,
            db |-> IF db.tab[st.t].exists THEN db
                   ELSE [db EXCEPT !.tab[st.t] = EmptyTable]]
      [] st.op = "index" ->
           IF st.i \in db.idx \/ ~db.tab[st.t].exists
           THEN [ok |-> FALSE, db |-> db]
           ELSE [ok |-> TRUE, db |-> [db EXCEPT !.idx = @ \cup {st.i}]]
      [] st.op = "index_if_not_exists" ->
           IF ~db.tab[st.t].exists
           THEN [ok |-> FALSE, db |-> db]
           ELSE [ok |-> TRUE, db |-> [db EXCEPT !.idx = @ \cup {st.i}]]

\* cursor.execute of each statement in turn; statement f fails for an outside
\* reason (f = 0: none does).  Stops at the first failure.
RECURSIVE ExecDDL(_, _, _, _, _)
ExecDDL(s, stmts, i, f, ac) ==
    IF i > Len(stmts) THEN [ok |-> TRUE, s |-> s, cause |-> "none", at |-> 0]
    ELSE IF i = f
         THEN [ok |-> FALSE, s |-> StmtFail(s, ac), cause |-> "injected", at |-> i]
    ELSE LET r == ApplyDDL(s.w, stmts[i]) IN
         IF ~r.ok
         THEN [ok |-> FALSE, s |-> StmtFail(s, ac), cause |-> "ddl", at |-> i]
         ELSE ExecDDL(StmtOk(s, r.db, ac), stmts, i + 1, f, ac)

\* INSERT of one row; argo_floats.float_id is the primary key.
InsertRow(db, t, r) ==
    IF ~db.tab[t].exists \/ (t = "argo_floats" /\ r \in Range(db.tab[t].rows))
    THEN [ok |-> FALSE, db |-> db]
    ELSE [ok |-> TRUE, db |-> [db EXCEPT !.tab[t].rows = Append(@, r)]]

\* cursor.executemany: one INSERT per row of the batch; the f-th fails for an
\* outside reason (f = 0: none does).
RECURSIVE ExecuteMany(_, _, _, _, _, _)
ExecuteMany(s, t, batch, i, f, ac) ==
    IF i > Len(batch) THEN [ok |-> TRUE, s |-> s, cause |-> "none"]
    ELSE IF i = f THEN [ok |-> FALSE, s |-> StmtFail(s, ac), cause |-> "injected"]
    ELSE LET r == InsertRow(s.w, t, batch[i]) IN
         IF ~r.ok THEN [ok |-> FALSE, s |-> StmtFail(s, ac), cause |-> "insert"]
         ELSE ExecuteMany(StmtOk(s, r.db, ac), t, batch, i + 1, f, ac)

\* SELECT COUNT(*) FROM t, as the connection sees it.
PgCount(s, t) == Len(s.w.tab[t].rows)


\* ------------------------------------------------------------- run state
Scripts == {"migrate", "csv", "bulk"}

StartPc(sc) ==
    CASE sc = "migrate" -> "connect_sqlite"
      [] sc = "csv" -> "csv_connect"
      [] sc = "bulk" -> "bulk_connect"

LocInit == [table_name |-> "", batch_size |-> 0, total_rows |-> 0,
            offset |-> 0, rows_inserted |-> 0]

HistInit(db) ==
    [prov |-> 0,            \* provisionings completed
     calls |-> 0,           \* table loads started
     written |-> {},        \* tables a row was written to
     loaded |-> {},         \* tables whose load finished
     verified |-> 0,        \* verifications completed
     failed |-> "none",     \* the phase that raised
     cause |-> "none",      \* what made it raise
     failedStmt |-> 0,      \* the DDL statement that failed
     failedTable |-> "",
     failedBatch |-> 0,     \* 1-indexed batch the load failed on
     drift |-> FALSE,       \* the source was written to during this run
     preDb |-> db,          \* destination when the run started
     csv |-> [t \in Tables |-> <<>>],  \* rows of the stream given to COPY
     copyFailed |-> {}]     \* tables whose COPY failed partway

Running == [exit |-> -1, msg |-> ""]
NoVerdict == [all_good |-> TRUE, lines |-> <<>>]
NoPrev == [failed |-> FALSE, prov |-> 0]

Fail(h, phase, cause) == [h EXCEPT !.failed = phase, !.cause = cause]

Init ==
    /\ run = 1
    /\ script \in Scripts
    /\ pc = StartPc(script)
    /\ \E n, m \in 0..MaxRows :
          sqlite = [t \in Tables |->
                      IF t = "argo_floats" THEN Iota(n) ELSE Iota(m)]
    /\ pg \in {Idle(NoSchema), Idle(FreshSchema), Idle(StaleSchema)}
    /\ sqlite_conn = "none"
    /\ pg_conn = "none"
    /\ loc = LocInit
    /\ batches = [t \in Tables |-> <<>>]
    /\ verdict = NoVerdict
    /\ outcome = Running
    /\ hist = HistInit(pg.c)
    /\ prev = NoPrev
    /\ srcWrites = 0

\* ------------------------------------------------------------- migrate_to_supabase.py
\* sys.exit(1): the process ends; the server drops what was not committed.
SysExit1 ==
    /\ pc' = "ended"
    /\ outcome' = [exit |-> 1, msg |-> "connection failed"]
    /\ pg' = Discard(pg)

ConnectSqlite ==
    /\ pc = "connect_sqlite"
    /\ \/ /\ sqlite_conn' = "open"
          /\ pc' = "connect_postgres"
          /\ UNCHANGED <<outcome, pg, hist>>
       \/ /\ SysExit1
          /\ hist' = Fail(hist, "connect", "injected")
          /\ UNCHANGED sqlite_conn
    /\ UNCHANGED <<run, script, sqlite, pg_conn, loc, batches, verdict, prev, srcWrites>>

ConnectPostgres ==
    /\ pc = "connect_postgres"
    /\ \/ /\ pg_conn' = "open"
          /\ pc' = "create_tables"
          /\ UNCHANGED <<outcome, pg, hist>>
       \/ /\ SysExit1
          /\ hist' = Fail(hist, "connect", "injected")
          /\ UNCHANGED pg_conn
    /\ UNCHANGED <<run, script, sqlite, sqlite_conn, loc, batches, verdict, prev, srcWrites>>

\* The statements create_tables executes.
DropStatements ==
    << Stmt("drop", "argo_profiles", ""),
       Stmt("drop", "argo_floats", "") >>
CreateStatements ==
    << Stmt("create", "argo_floats", ""),
       Stmt("create", "argo_profiles", ""),
       Stmt("index", "argo_profiles", "idx_profiles_float_id"),
       Stmt("index", "argo_profiles", "idx_profiles_timestamp"),
       Stmt("index", "argo_profiles", "idx_profiles_lat"),
       Stmt("index", "argo_profiles", "idx_profiles_lon"),
       Stmt("index", "argo_profiles", "idx_profiles_location") >>
SchemaNoDrop == CreateStatements
SchemaIfNotExists ==
    [i \in 1..Len(CreateStatements) |->
        [CreateStatements[i] EXCEPT !.op = @ \o "_if_not_exists"]]
Schema == DropStatements \o CreateStatements

\* create_tables: all statements then commit; on any error rollback and raise.
CreateTables ==
    /\ pc = "create_tables"
    /\ \E f \in 0..Len(Schema) :
         LET r == ExecDDL(pg, Schema, 1, f, Autocommit) IN
         IF r.ok
         THEN /\ pg' = Commit(r.s)
              /\ hist' = [hist EXCEPT !.prov = @ + 1]
              /\ pc' = "migrate_data"
         ELSE /\ pg' = Rollback(r.s)
              /\ hist' = [Fail(hist, "schema", r.cause) EXCEPT !.failedStmt = r.at]
              /\ pc' = "except"
    /\ UNCHANGED <<run, script, sqlite, sqlite_conn, pg_conn, loc, batches,
                   verdict, outcome, prev, srcWrites>>

\* main: migrate_data(argo_floats), then migrate_data(argo_profiles).
LoadOrderSwapped == <<"argo_profiles", "argo_floats">>
LoadOrder == <<"argo_floats", "argo_profiles">>

\* migrate_data up to the loop: COUNT(*), PRAGMA table_info, offset = 0.
MigrateStart ==
    /\ pc = "migrate_data"
    /\ LET t == LoadOrder[hist.calls + 1] IN
       \/ \E b \in 1..MaxBatch :
            /\ loc' = [table_name |-> t, batch_size |-> b,
                       total_rows |-> Len(sqlite[t]), offset |-> 0,
                       rows_inserted |-> 0]
            /\ hist' = [hist EXCEPT !.calls = @ + 1]
            /\ pc' = "migrate_loop"
       \/ /\ hist' = [Fail(hist, "load", "injected") EXCEPT !.failedTable = t]
          /\ pc' = "except"
          /\ UNCHANGED loc
    /\ UNCHANGED <<run, script, sqlite, pg, sqlite_conn, pg_conn, batches,
                   verdict, outcome, prev, srcWrites>>

Min(a, b) == IF a < b THEN a ELSE b

\* SELECT ... LIMIT limit OFFSET offset
PageOffByOne(rows, limit, offset) ==
    SubSeq(rows, offset + 2, Min(offset + limit + 1, Len(rows)))
Page(rows, limit, offset) == SubSeq(rows, offset + 1, Min(offset + limit, Len(rows)))

\* return rows_inserted
MigrateReturn ==
    /\ hist' = [hist EXCEPT !.loaded = @ \cup {loc.table_name}]
    /\ pc' = IF hist.calls = Len(LoadOrder) THEN "verify" ELSE "migrate_data"

LoadFailed(h, t, k, cause) ==
    [Fail(h, "load", cause) EXCEPT !.failedTable = t, !.failedBatch = k]

\* if not batch: break
NeverBreak(batch) == FALSE
BreakOnEmpty(batch) == batch = <<>>

\* One pass of the while loop: fetch a page, executemany, commit.
MigrateBatch ==
    /\ pc = "migrate_loop"
    /\ loc.offset < loc.total_rows
    /\ LET t == loc.table_name
           batch == Page(sqlite[t], loc.batch_size, loc.offset)
           k == Len(batches[t]) + 1
       IN
       \/ \* the SELECT fails
          /\ hist' = LoadFailed(hist, t, k, "injected")
          /\ pc' = "except"
          /\ UNCHANGED <<pg, loc, batches>>
       \/ \* if not batch: break
          /\ BreakOnEmpty(batch)
          /\ MigrateReturn
          /\ UNCHANGED <<pg, loc, batches>>
       \/ /\ ~BreakOnEmpty(batch)
          /\ batches' = [batches EXCEPT ![t] = Append(@, batch)]
          /\ \E f \in 0..Len(batch) + 1 :
               LET r == ExecuteMany(pg, t, batch, 1, f, Autocommit)
                   wrote == IF r.s.w = pg.w THEN hist.written
                            ELSE hist.written \cup {t}
                   cause == IF r.ok THEN "commit" ELSE r.cause
               IN
               IF r.ok /\ f # Len(batch) + 1
               THEN /\ pg' = Commit(r.s)
                    /\ loc' = [loc EXCEPT !.rows_inserted = @ + Len(batch),
                                          !.offset = @ + loc.batch_size]
                    /\ hist' = [hist EXCEPT !.written = wrote]
                    /\ pc' = "migrate_loop"
               ELSE /\ pg' = IF r.ok THEN StmtFail(r.s, Autocommit) ELSE r.s
                    /\ hist' = [LoadFailed(hist, t, k, cause) EXCEPT !.written = wrote]
                    /\ pc' = "except"
                    /\ UNCHANGED loc
    /\ UNCHANGED <<run, script, sqlite, sqlite_conn, pg_conn, verdict, outcome,
                   prev, srcWrites>>

\* The while condition is false: fall out of the loop and return.
MigrateDone ==
    /\ pc = "migrate_loop"
    /\ ~(loc.offset < loc.total_rows)
    /\ MigrateReturn
    /\ UNCHANGED <<run, script, sqlite, pg, sqlite_conn, pg_conn, loc, batches,
                   verdict, outcome, prev, srcWrites>>

\* An outside writer changes the source while a table is being read: it
\* deletes the first row in scan order, or adds a row at the end.
SourceWrite ==
    /\ pc = "migrate_loop"
    /\ srcWrites < MaxSrcWrites
    /\ \E t \in Tables :
         \/ /\ sqlite[t] # <<>>
            /\ sqlite' = [sqlite EXCEPT ![t] = Tail(@)]
         \/ /\ Len(sqlite[t]) < MaxRows
            /\ sqlite' = [sqlite EXCEPT ![t] =
                 Append(@, IF @ = <<>> THEN 1 ELSE @[Len(@)] + 1)]
    /\ srcWrites' = srcWrites + 1
    /\ hist' = [hist EXCEPT !.drift = TRUE]
    /\ UNCHANGED <<run, script, pc, pg, sqlite_conn, pg_conn, loc, batches,
                   verdict, outcome, prev>>

\* for table in ['argo_profiles', 'argo_floats']
VerifyTables == <<"argo_profiles", "argo_floats">>

\* if sqlite_count == pg_count: ... else: all_good = False
AllGoodLast(all_good, sqlite_count, pg_count) == sqlite_count = pg_count
AllGoodStep(all_good, sqlite_count, pg_count) ==
    IF sqlite_count = pg_count THEN all_good ELSE FALSE

\* The line printed for one table: "(match)" with the row count, or
\* "(MISMATCH)" with SQLite= and PostgreSQL= counts.
VerifyLine(table, sqlite_count, pg_count) ==
    IF sqlite_count = pg_count
    THEN [table |-> table, match |-> TRUE, counts |-> <<sqlite_count>>]
    ELSE [table |-> table, match |-> FALSE, counts |-> <<sqlite_count, pg_count>>]

RECURSIVE VerifyLoop(_, _, _, _)
VerifyLoop(src, s, i, acc) ==
    IF i > Len(VerifyTables) THEN acc
    ELSE LET table == VerifyTables[i]
             sqlite_count == Len(src[table])
             pg_count == PgCount(s, table)
         IN VerifyLoop(src, s, i + 1,
               [all_good |-> AllGoodStep(acc.all_good, sqlite_count, pg_count),
                lines |-> Append(acc.lines,
                                 VerifyLine(table, sqlite_count, pg_count))])

\* verify_migration
VerifyMigration ==
    /\ pc = "verify"
    /\ \/ /\ verdict' = VerifyLoop(sqlite, pg, 1, NoVerdict)
          /\ hist' = [hist EXCEPT !.verified = @ + 1]
          /\ pc' = "verified"
          /\ UNCHANGED pg
       \/ \* a COUNT(*) query fails
          /\ hist' = Fail(hist, "verify", "injected")
          /\ pg' = StmtFail(pg, Autocommit)
          /\ pc' = "except"
          /\ UNCHANGED verdict
    /\ UNCHANGED <<run, script, sqlite, sqlite_conn, pg_conn, loc, batches,
                   outcome, prev, srcWrites>>

\* main: finally: close both connections; main returns, the process exits 0.
MainFinally ==
    /\ sqlite_conn' = "closed"
    /\ pg_conn' = "closed"
    /\ pg' = Discard(pg)
    /\ pc' = "ended"

\* main: what is printed after verify_migration returned.
ReportAlwaysSuccess(all_good) == "MIGRATION SUCCESSFUL"
ReportMessage(all_good) ==
    IF all_good THEN "MIGRATION SUCCESSFUL" ELSE "Migration completed with errors"

\* main: if verify_migration(...): "MIGRATION SUCCESSFUL" else "completed with
\* errors"; then the finally block.
MainReport ==
    /\ pc = "verified"
    /\ outcome' = [exit |-> 0, msg |-> ReportMessage(verdict.all_good)]
    /\ MainFinally
    /\ UNCHANGED <<run, script, sqlite, loc, batches, verdict, hist, prev, srcWrites>>

\* main: except Exception as e: print, traceback.print_exc(); then the finally
\* block.
MainExcept ==
    /\ pc = "except"
    /\ outcome' = [exit |-> 0, msg |-> "Migration failed"]
    /\ MainFinally
    /\ UNCHANGED <<run, script, sqlite, loc, batches, verdict, hist, prev, srcWrites>>

\* ------------------------------------------------------------- CSV import scripts
\* supabase_schema.sql, read and executed as one block by both CSV scripts.
SupabaseSchemaSql == DropStatements \o CreateStatements

RECURSIVE InsertRows(_, _, _)
InsertRows(db, t, rows) ==
    IF rows = <<>> THEN [ok |-> TRUE, db |-> db]
    ELSE LET r == InsertRow(db, t, Head(rows)) IN
         IF ~r.ok THEN r ELSE InsertRows(r.db, t, Tail(rows))

\* The loader commits every row as it is read.
CopyRowByRow(s, t, rows, bad) ==
    LET n == IF bad = 0 THEN Len(rows) ELSE bad - 1
        r == InsertRows(s.w, t, SubSeq(rows, 1, n))
    IN [ok |-> bad = 0 /\ r.ok, s |-> Idle(r.db)]
\* cursor.copy_expert("COPY t FROM STDIN ..."): one statement; line `bad` of the
\* data (0: none) is malformed or cut short.
CopyExpert(s, t, rows, bad) ==
    LET r == InsertRows(s.w, t, rows) IN
    IF bad = 0 /\ r.ok
    THEN [ok |-> TRUE, s |-> StmtOk(s, r.db, FALSE)]
    ELSE [ok |-> FALSE, s |-> StmtFail(s, FALSE)]

\* Schema step of a CSV script: read the file, execute it, commit.
CsvSchema(okpc, errpc) ==
    /\ \E f \in 0..Len(SupabaseSchemaSql) :
         LET r == ExecDDL(pg, SupabaseSchemaSql, 1, f, FALSE) IN
         IF r.ok
         THEN /\ pg' = Commit(r.s)
              /\ hist' = [hist EXCEPT !.prov = @ + 1]
              /\ pc' = okpc
         ELSE /\ pg' = r.s
              /\ hist' = [Fail(hist, "schema", r.cause) EXCEPT !.failedStmt = r.at]
              /\ pc' = errpc
    /\ UNCHANGED <<run, script, sqlite, sqlite_conn, pg_conn, loc, batches,
                   verdict, outcome, prev, srcWrites>>

\* Load step of a CSV script: open the file, COPY it, commit, count the rows.
CsvLoad(t, okpc, errpc) ==
    /\ \/ \* the file cannot be opened or has no header line to skip
          /\ hist' = [Fail(hist, "load", "injected") EXCEPT !.failedTable = t]
          /\ pc' = errpc
          /\ UNCHANGED pg
       \/ \E n \in 0..MaxRows : \E bad \in 0..n :
            LET r == CopyExpert(pg, t, Iota(n), bad)
                h == [hist EXCEPT !.calls = @ + 1,
                                  !.csv[t] = Iota(n),
                                  !.written = IF n > 0 /\ bad # 1
                                              THEN @ \cup {t} ELSE @]
            IN
            IF r.ok
            THEN \/ /\ pg' = Commit(r.s)
                    /\ hist' = [h EXCEPT !.loaded = @ \cup {t}]
                    /\ pc' = okpc
                 \/ \* SELECT COUNT(*) after the commit fails
                    /\ pg' = StmtFail(Commit(r.s), FALSE)
                    /\ hist' = [Fail(h, "load", "injected") EXCEPT !.failedTable = t]
                    /\ pc' = errpc
            ELSE /\ pg' = r.s
                 /\ hist' = [Fail(h, "load", "copy") EXCEPT
                               !.failedTable = t, !.copyFailed = @ \cup {t}]
                 /\ pc' = errpc
    /\ UNCHANGED <<run, script, sqlite, sqlite_conn, pg_conn, loc, batches,
                   verdict, outcome, prev, srcWrites>>

\* Verify step of a CSV script: count queries and sample queries.
CsvVerify(okpc, errpc) ==
    /\ \/ /\ hist' = [hist EXCEPT !.verified = @ + 1]
          /\ pc' = okpc
          /\ UNCHANGED pg
       \/ /\ hist' = Fail(hist, "verify", "injected")
          /\ pg' = StmtFail(pg, FALSE)
          /\ pc' = errpc
    /\ UNCHANGED <<run, script, sqlite, sqlite_conn, pg_conn, loc, batches,
                   verdict, outcome, prev, srcWrites>>

\* ---- import_csv_to_supabase.py
\* psycopg2.connect before the try: a failure leaves import_csv as an
\* uncaught exception.
CsvConnect ==
    /\ pc = "csv_connect"
    /\ \/ /\ pg_conn' = "open"
          /\ pc' = "csv_schema"
          /\ UNCHANGED <<outcome, hist>>
       \/ /\ pc' = "ended"
          /\ outcome' = [exit |-> 1, msg |-> "Traceback"]
          /\ hist' = Fail(hist, "connect", "injected")
          /\ UNCHANGED pg_conn
    /\ UNCHANGED <<run, script, sqlite, pg, sqlite_conn, loc, batches, verdict,
                   prev, srcWrites>>

CsvCreateTables == pc = "csv_schema" /\ CsvSchema("csv_floats", "csv_except")
CsvImportFloats ==
    pc = "csv_floats" /\ CsvLoad("argo_floats", "csv_profiles", "csv_except")
CsvImportProfiles ==
    pc = "csv_profiles" /\ CsvLoad("argo_profiles", "csv_verify", "csv_except")
CsvVerifyStep == pc = "csv_verify" /\ CsvVerify("csv_success", "csv_except")

\* finally: cursor.close(); conn.close(); import_csv returns, the process exits 0.
CsvFinally ==
    /\ pg_conn' = "closed"
    /\ pc' = "ended"

\* "IMPORT SUCCESSFUL", then the finally block.
CsvSuccess ==
    /\ pc = "csv_success"
    /\ outcome' = [exit |-> 0, msg |-> "IMPORT SUCCESSFUL"]
    /\ pg' = Discard(pg)
    /\ CsvFinally
    /\ UNCHANGED <<run, script, sqlite, sqlite_conn, loc, batches, verdict,
                   hist, prev, srcWrites>>

\* except Exception as e: conn.rollback(); print; then the finally block.
CsvExcept ==
    /\ pc = "csv_except"
    /\ pg' = Discard(Rollback(pg))
    /\ outcome' = [exit |-> 0, msg |-> "Import failed"]
    /\ CsvFinally
    /\ UNCHANGED <<run, script, sqlite, sqlite_conn, loc, batches, verdict,
                   hist, prev, srcWrites>>

\* ---- bulk_import_supabase.py
BulkConnect ==
    /\ pc = "bulk_connect"
    /\ \/ /\ pg_conn' = "open"
          /\ pc' = "bulk_schema"
          /\ UNCHANGED hist
       \/ /\ pc' = "bulk_except"
          /\ hist' = Fail(hist, "connect", "injected")
          /\ UNCHANGED pg_conn
    /\ UNCHANGED <<run, script, sqlite, pg, sqlite_conn, loc, batches, verdict,
                   outcome, prev, srcWrites>>

BulkCreateSchema == pc = "bulk_schema" /\ CsvSchema("bulk_floats", "bulk_except")
BulkImportFloats ==
    pc = "bulk_floats" /\ CsvLoad("argo_floats", "bulk_profiles", "bulk_except")
BulkImportProfiles ==
    pc = "bulk_profiles" /\ CsvLoad("argo_profiles", "bulk_verify", "bulk_except")
BulkVerifyImport == pc = "bulk_verify" /\ CsvVerify("bulk_close", "bulk_except")

\* conn.close(); "MIGRATION COMPLETE"; main returns, the process exits 0.
BulkClose ==
    /\ pc = "bulk_close"
    /\ pg_conn' = "closed"
    /\ pg' = Discard(pg)
    /\ outcome' = [exit |-> 0, msg |-> "MIGRATION COMPLETE"]
    /\ pc' = "ended"
    /\ UNCHANGED <<run, script, sqlite, sqlite_conn, loc, batches, verdict,
                   hist, prev, srcWrites>>

\* except Exception as e: print; raise.  The process exits with a traceback;
\* the server drops what was not committed.
BulkExcept ==
    /\ pc = "bulk_except"
    /\ pg' = Discard(pg)
    /\ outcome' = [exit |-> 1, msg |-> "ERROR"]
    /\ pc' = "ended"
    /\ UNCHANGED <<run, script, sqlite, sqlite_conn, pg_conn, loc, batches,
                   verdict, hist, prev, srcWrites>>

\* ------------------------------------------------------------- runs
\* The operator runs the script again after a run has ended.
NewRun ==
    /\ pc = "ended"
    /\ run < MaxRuns
    /\ run' = run + 1
    /\ pc' = StartPc(script)
    /\ sqlite_conn' = "none"
    /\ pg_conn' = "none"
    /\ loc' = LocInit
    /\ batches' = [t \in Tables |-> <<>>]
    /\ verdict' = NoVerdict
    /\ outcome' = Running
    /\ hist' = HistInit(pg.c)
    /\ prev' = [failed |-> hist.failed # "none", prov |-> hist.prov]
    /\ UNCHANGED <<script, sqlite, pg, srcWrites>>

Next ==
    \/ ConnectSqlite \/ ConnectPostgres \/ CreateTables
    \/ MigrateStart \/ MigrateBatch \/ MigrateDone \/ SourceWrite
    \/ VerifyMigration \/ MainReport \/ MainExcept
    \/ CsvConnect \/ CsvCreateTables \/ CsvImportFloats \/ CsvImportProfiles
    \/ CsvVerifyStep \/ CsvSuccess \/ CsvExcept
    \/ BulkConnect \/ BulkCreateSchema \/ BulkImportFloats \/ BulkImportProfiles
    \/ BulkVerifyImport \/ BulkClose \/ BulkExcept
    \/ NewRun

Spec == Init /\ [][Next]_vars

\* One run of migrate_to_supabase.py.  The script is one sequential thread: a
\* loop that can take its next pass or leave does so.
MigrateInit == Init /\ script = "migrate"

MigrateNext ==
    \/ ConnectSqlite \/ ConnectPostgres \/ CreateTables
    \/ MigrateStart \/ MigrateBatch \/ MigrateDone \/ SourceWrite
    \/ VerifyMigration \/ MainReport \/ MainExcept

FairSpec ==
    MigrateInit /\ [][MigrateNext]_vars
        /\ WF_vars(MigrateBatch) /\ WF_vars(MigrateDone)

\* ------------------------------------------------------------- properties
\* Committed rows of a destination table.
Rows(t) == pg.c.tab[t].rows
RowsIn(db) == Len(db.tab["argo_floats"].rows) + Len(db.tab["argo_profiles"].rows)

RECURSIVE Flatten(_)
Flatten(ss) == IF ss = <<>> THEN <<>> ELSE Head(ss) \o Flatten(Tail(ss))

NoDup(s) == \A i, j \in 1..Len(s) : s[i] = s[j] => i = j

\* C1: when migrate_data has returned normally for a table and nothing wrote to
\* the source during the run, the pages it fetched (LIMIT batch_size OFFSET
\* 0, batch_size, 2*batch_size, ...) concatenate to the rows of the source
\* table, each row exactly once, and the destination table holds exactly
\* those rows.
C1_Partition ==
    (script = "migrate" /\ ~hist.drift) =>
        \A t \in hist.loaded :
            /\ Flatten(batches[t]) = sqlite[t]
            /\ NoDup(Flatten(batches[t]))
            /\ Rows(t) = sqlite[t]
            /\ t = loc.table_name =>
                 \A i \in 1..Len(batches[t]) :
                    batches[t][i] =
                      SubSeq(sqlite[t], (i - 1) * loc.batch_size + 1,
                             Min(i * loc.batch_size, Len(sqlite[t])))

\* A table of several rows was moved in more than one batch.
C1_Witness ==
    /\ script = "migrate" /\ ~hist.drift
    /\ "argo_profiles" \in hist.loaded
    /\ Len(batches["argo_profiles"]) >= 2
    /\ Rows("argo_profiles") = sqlite["argo_profiles"]

\* C2: when the batched load of a table failed on batch k, the run ends with
\* the destination table holding exactly the rows of batches 1..k-1 and no row
\* of batch k.
C2_BatchDurability ==
    (script = "migrate" /\ pc = "ended" /\ hist.failed = "load"
       /\ hist.failedBatch >= 1) =>
        LET t == hist.failedTable
            k == hist.failedBatch
        IN /\ Rows(t) = Flatten(SubSeq(batches[t], 1, k - 1))
           /\ k <= Len(batches[t]) =>
                Range(batches[t][k]) \cap Range(Rows(t)) = {}

\* The second batch was inserted but its commit failed; the first is kept.
C2_Witness ==
    /\ script = "migrate" /\ pc = "ended" /\ hist.failed = "load"
    /\ hist.failedBatch = 2 /\ hist.cause = "commit"
    /\ Len(batches[hist.failedTable]) = 2
    /\ Len(Rows(hist.failedTable)) >= 1

\* C3: in both CSV import scripts, a table whose COPY failed partway ends the
\* run with zero rows; a table ends with the whole stream or with none of it.
C3_CopyAtomic ==
    (script \in {"csv", "bulk"} /\ pc = "ended" /\ hist.prov = 1) =>
        \A t \in Tables :
            /\ t \in hist.copyFailed => (pg.c.tab[t].exists /\ Rows(t) = <<>>)
            /\ Rows(t) \in {<<>>, hist.csv[t]}

\* The COPY of argo_profiles broke after its first line, argo_floats is loaded.
C3_Witness ==
    /\ script \in {"csv", "bulk"} /\ pc = "ended"
    /\ "argo_profiles" \in hist.copyFailed
    /\ "argo_profiles" \in hist.written
    /\ Rows("argo_profiles") = <<>>
    /\ Rows("argo_floats") # <<>>

\* C4: every connection a run opened is closed when the run ends.
C4_ConnectionsReleased ==
    pc = "ended" => (sqlite_conn # "open" /\ pg_conn # "open")

\* C5: a run in which the provision, load or verify phase raised ends with a
\* failure outcome, never with exit status 0.
C5_FailureReported ==
    (pc = "ended" /\ hist.failed \in {"schema", "load", "verify"}) =>
        outcome.exit # 0

\* C6: create_tables is never refused by what the destination already holds
\* (absent, empty or filled tables, or the tables an earlier create_tables
\* made), and whenever it completes the destination is exactly the two empty
\* tables and the five indexes.
C6_IdempotentProvisioning ==
    script = "migrate" =>
        /\ ~(hist.failed = "schema" /\ hist.cause = "ddl")
        /\ (hist.prov = 1 /\ hist.calls = 0) => pg = Idle(FreshSchema)

\* create_tables completed again on the tables the first run's create_tables left.
C6_Witness ==
    /\ script = "migrate" /\ run = 2 /\ prev.prov = 1
    /\ hist.preDb = FreshSchema
    /\ hist.prov = 1 /\ hist.calls = 0

\* C7: when a statement of create_tables fails, the destination is what it was
\* before the run, the error reaches main, and no table load is started.
C7_SchemaFailureAtomic ==
    (script = "migrate" /\ hist.failed = "schema") =>
        /\ pg.c = hist.preDb
        /\ pc \in {"except", "ended"}
        /\ hist.calls = 0 /\ hist.written = {} /\ hist.loaded = {}

\* A CREATE INDEX failed after the filled tables had been dropped and recreated.
C7_Witness ==
    /\ script = "migrate" /\ hist.failed = "schema" /\ pc = "ended"
    /\ hist.failedStmt > 4
    /\ hist.preDb = StaleSchema
    /\ pg.c = StaleSchema

\* C8: verify_migration returns true exactly when both tables have equal
\* counts on both sides, and prints one line per table: the table, the match
\* flag, and the count (match) or the SQLite and PostgreSQL counts (mismatch).
C8_VerifyCorrect ==
    (script = "migrate" /\ hist.verified = 1) =>
        /\ verdict.all_good <=>
             \A t \in {"argo_profiles", "argo_floats"} :
                Len(sqlite[t]) = Len(Rows(t))
        /\ Len(verdict.lines) = 2
        /\ {verdict.lines[i].table : i \in 1..2} = Tables
        /\ \A i \in 1..Len(verdict.lines) :
             LET l == verdict.lines[i]
                 sc == Len(sqlite[l.table])
                 dc == Len(Rows(l.table))
             IN /\ l.match <=> (sc = dc)
                /\ l.match => l.counts = <<sc>>
                /\ ~l.match => l.counts = <<sc, dc>>

\* One table matched and the other did not.
C8_Witness ==
    /\ script = "migrate" /\ hist.verified = 1
    /\ ~verdict.all_good
    /\ \E i, j \in 1..Len(verdict.lines) :
          verdict.lines[i].match /\ ~verdict.lines[j].match

\* C9 as stated: every run provisions exactly once, before any row is written,
\* loads argo_floats completely before any row of argo_profiles, and verifies
\* exactly once, after both loads.
C9_ExactlyOnceEveryRun ==
    /\ hist.written # {} => hist.prov = 1
    /\ "argo_profiles" \in hist.written => "argo_floats" \in hist.loaded
    /\ hist.verified >= 1 => hist.loaded = Tables
    /\ pc = "ended" => (hist.prov = 1 /\ hist.verified = 1)

\* C9 amended: in every run provisioning and verification each happen at most
\* once; no row is written before provisioning completed; no row of
\* argo_profiles is written before the load of argo_floats finished;
\* verification happens only after both loads finished; and a run that ends
\* without an error has provisioned once, loaded both tables and verified once.
C9_PhaseOrder ==
    /\ hist.prov <= 1 /\ hist.verified <= 1
    /\ hist.failed = "schema" => hist.prov = 0
    /\ (hist.written # {} \/ hist.calls > 0) => hist.prov = 1
    /\ "argo_profiles" \in hist.written => "argo_floats" \in hist.loaded
    /\ hist.verified = 1 => hist.loaded = Tables
    /\ (pc = "ended" /\ hist.failed = "none") =>
          (hist.prov = 1 /\ hist.loaded = Tables /\ hist.verified = 1)

\* A batched migration that wrote rows to both tables ended without error.
C9_Witness ==
    /\ script = "migrate" /\ pc = "ended" /\ hist.failed = "none"
    /\ hist.written = Tables /\ hist.verified = 1

\* C10: a batched migration that runs to completion against a source nobody
\* writes to leaves each source row exactly once in the destination, whatever
\* an earlier failed run had committed.
C10_RerunSafe ==
    (script = "migrate" /\ pc = "ended" /\ hist.failed = "none" /\ ~hist.drift) =>
        \A t \in Tables : Rows(t) = sqlite[t] /\ NoDup(Rows(t))

\* The rerun completed after a failed run that had committed batches.
C10_Witness ==
    /\ script = "migrate" /\ run = 2 /\ pc = "ended"
    /\ prev.failed /\ prev.prov = 1 /\ RowsIn(hist.preDb) > 0
    /\ hist.failed = "none" /\ ~hist.drift
    /\ RowsIn(pg.c) > RowsIn(hist.preDb)

\* While migrate_data runs or after it returned (and no batch failed): the
\* offset is batch_size times the batches inserted, no empty page was
\* inserted, rows_inserted counts the rows fetched, the loop is never entered
\* again once the offset has passed total_rows, and it was left either with
\* offset >= total_rows or on an empty page of a source that was written to.
C11_Stops ==
    (script = "migrate" /\ loc.table_name \in Tables /\ hist.failed # "load") =>
        LET t == loc.table_name
            B == loc.batch_size
        IN /\ B >= 1
           /\ loc.offset = Len(batches[t]) * B
           /\ \A i \in 1..Len(batches[t]) : batches[t][i] # <<>>
           /\ loc.rows_inserted = Len(Flatten(batches[t]))
           /\ loc.rows_inserted = Len(pg.c.tab[t].rows)
           /\ loc.offset - B < loc.total_rows \/ loc.offset = 0
           /\ t \in hist.loaded =>
                \/ loc.offset >= loc.total_rows
                \/ /\ Page(sqlite[t], B, loc.offset) = <<>>
                   /\ hist.drift

\* C11: the paging loop of migrate_data terminates for every table and batch
\* size: total_rows is fixed while it runs, it is left when offset reaches or
\* passes total_rows, and it is left early on an empty page (the source
\* shrank), with no insert for that page and rows_inserted counting only the
\* rows fetched.
C11_Terminates ==
    /\ []C11_Stops
    /\ [][(pc = "migrate_loop" /\ pc' = "migrate_loop") =>
            /\ loc'.total_rows = loc.total_rows
            /\ loc' = loc \/ loc'.offset = loc.offset + loc.batch_size]_vars
    /\ (pc = "migrate_loop") ~> (pc # "migrate_loop")

\* The loop was left on an empty page with offset still below total_rows,
\* after it had inserted a batch.
C11_Witness ==
    /\ script = "migrate" /\ loc.table_name \in hist.loaded
    /\ loc.offset < loc.total_rows
    /\ loc.rows_inserted >= 1
    /\ hist.failed = "none"

\* C12: in the batched migration, "MIGRATION SUCCESSFUL" is reported only when
\* provisioning and both loads completed without error and verify_migration
\* found equal counts for both tables; a run whose verification found a
\* mismatch ends with "Migration completed with errors", no exception raised
\* and both connections closed.
C12_SuccessOnlyWhenVerified ==
    script = "migrate" =>
        /\ outcome.msg = "MIGRATION SUCCESSFUL" =>
             /\ hist.failed = "none"
             /\ hist.prov = 1 /\ hist.loaded = Tables /\ hist.verified = 1
             /\ verdict.all_good
             /\ \A t \in Tables : Len(sqlite[t]) = Len(Rows(t))
        /\ (pc = "ended" /\ hist.verified = 1
              /\ \E t \in Tables : Len(sqlite[t]) # Len(Rows(t))) =>
             /\ outcome = [exit |-> 0, msg |-> "Migration completed with errors"]
             /\ hist.failed = "none"
             /\ sqlite_conn = "closed" /\ pg_conn = "closed"

\* A run whose loads completed ended with a count mismatch.
C12_Witness ==
    /\ script = "migrate" /\ pc = "ended" /\ hist.verified = 1
    /\ hist.loaded = Tables
    /\ \E t \in Tables : Len(sqlite[t]) # Len(Rows(t))
    /\ outcome.msg = "Migration completed with errors"
    /\ pg_conn = "closed"

==========================================================================
